---- MODULE Spec2Model ----
(***************************************************************************)
(* Delivery lifecycle and field-verification engine of the "para"          *)
(* delivery system: the package status machine, the assignment arbiter,    *)
(* the barcode scan processor and the geofence-gated attendance workflow,  *)
(* as implemented by server/routes.ts, server/storage.ts (DatabaseStorage) *)
(* and the two services.  Every `await` on the data store is one atomic    *)
(* step; a request that spans several awaits is a process whose position   *)
(* is kept in the bag `inflight`.                                          *)
(***************************************************************************)
EXTENDS Integers, Sequences, FiniteSets, Bags, TLC

\* ------------------------------------------------------------------ bounds
MaxReq  == 2     \* requests in flight at the same time
MaxHist == 2     \* rows of package_status_history ever written
MaxFaults == 1   \* failed INSERTs into package_status_history
MaxAtt == 2      \* rows of attendance ever created

\* --------------------------------------------------------------- constants
NULL == 0                      \* SQL NULL / undefined in a nullable column
ScanLimit == 50                \* getPackages(): LIMIT 50 when no limit given

Kurirs == {1, 2}               \* users seeded with role kurir
Staff  == {3}                  \* a user seeded with role admin
Users  == Kurirs \cup Staff

\* The users of the attendance workflow: one courier, whose role an admin
\* may change, and the admin.
AttUsers == {1, 3}

\* Serial ids of the geofence zones and the calendar dates the model follows.
ZoneSlots == {1}
GeoSlots == {1, 2}                  \* ids of geofence zones of the zone-store runs
GeoRadii == {9, 10, 5000, 5001}     \* body.radius values sent to the zone routes
GeoLocations == {10, 11, 5001}      \* check-in positions of the zone-store runs
Days == {1, 2}

\* Serial ids of the package rows the model follows.  Every statement of the
\* registry addresses one row (WHERE id = $1), so rows do not interact.
PkgSlots == {1}

\* The barcode lookup reads the table as a whole: its specification follows
\* one row more than getPackages() returns, and scans the barcodes of the
\* oldest and of the newest of them.
LookupSlots == 1..(ScanLimit + 1)
LookupBarcodes == {1, ScanLimit + 1}

userRoles == {"superadmin", "admin", "pic", "kurir"}
packageStatuses == {"created", "assigned", "picked_up", "in_transit", "delivered", "failed"}
ABSENT == "absent_field"       \* a body field that the request does not carry

\* Values of body.status and body.assignedKurirId that POST /api/packages is
\* sent with: none (the defaults), and values insertPackageSchema lets through.
BodyStatuses == {ABSENT, "assigned", "in_transit", "failed"}
BodyKurirs == {NULL, 1}
\* body.scanType is not validated: any string, or no value at all.
ScanTypes == {"pickup", "delivery", "other", ABSENT}
attendanceStatuses == {"present", "absent", "pending", "approved", "rejected"}
ReviewStatuses == {"approved", "rejected", "pending"}   \* body.status values tried

\* Locations are points of one meridian, given as metres of arc north of a
\* reference point; NAN is a missing or non-numeric coordinate.
NAN == -1
Centers == {0}
Radii == {10}
Locations == {10, 11}

\* Position of a status in the canonical order of the lifecycle.
Rank(s) ==
  CASE s = "created"    -> 0
    [] s = "assigned"   -> 1
    [] s = "picked_up"  -> 2
    [] s = "in_transit" -> 3
    [] s = "delivered"  -> 4
    [] s = "failed"     -> 4

Terminal(s) == s \in {"delivered", "failed"}

VARIABLES
  role,        \* users.role, per user id
  packages,    \* table packages: sequence indexed by the serial id
  history,     \* table package_status_history, in insertion order
  scanLogs,    \* table barcode_scan_logs, in insertion order
  inflight,    \* bag of requests that are between two awaits
  last,        \* status code of the HTTP response sent most recently
  takeOk,      \* per package: couriers whose POST /take answered 200
  takeTried,   \* per package: couriers whose POST /take ran its UPDATE
  writes,      \* per package: committed UPDATEs of packages.status
  faults,      \* failed INSERTs into package_status_history so far
  zones,       \* table geofence_zones: sequence indexed by the serial id
  attendance,  \* table attendance: sequence indexed by the serial id
  attInflight, \* bag of attendance requests that are between two awaits
  today        \* the calendar date that new Date() falls on

pkgVars == <<packages, history, scanLogs, inflight, takeOk, takeTried, writes, faults>>
attVars == <<zones, attendance, attInflight, today>>
vars == <<role, packages, history, scanLogs, inflight, last, takeOk, takeTried, writes, faults, attVars>>

\* ----------------------------------------------------------------- helpers
PkgIds == 1..Len(packages)

\* cur is currentPackage.status as updatePackageStatus read it; prev records
\* the status the row had when the UPDATE replaced it.
Request(op, user, pkg, pc, scanType, newStatus, cur) ==
  [op |-> op, user |-> user, pkg |-> pkg, pc |-> pc,
   scanType |-> scanType, newStatus |-> newStatus, cur |-> cur, prev |-> "none"]

InFlight == BagToSet(inflight)
AllIdle == inflight = EmptyBag

Spawn(r)       == inflight' = inflight (+) SetToBag({r})
Advance(r, r2) == inflight' = (inflight (-) SetToBag({r})) (+) SetToBag({r2})
Finish(r)      == inflight' = inflight (-) SetToBag({r})

\* A new multi-step request is admitted while the model's bounds allow it.
CanStart ==
  /\ BagCardinality(inflight) < MaxReq
  /\ Len(history) + BagCardinality(inflight) < MaxHist

HistRow(p, from, to, by) ==
  [packageId |-> p, fromStatus |-> from, toStatus |-> to, changedBy |-> by]

HistCount(p) == Cardinality({i \in DOMAIN history : history[i].packageId = p})

\* middleware/auth.ts requireRole
requireRole(roles, u) == role[u] \in roles

\* ------------------------------------------------------- Package Registry
\* storage.createPackage: the body is spread into the row, then status
\* defaults to "created" only when the body carries none.
createPackage(bodyStatus, bodyKurir) ==
  [status          |-> IF bodyStatus = ABSENT THEN "created" ELSE bodyStatus,
   assignedKurirId |-> bodyKurir,
   deliveredAt     |-> FALSE,
   barcode         |-> Len(packages) + 1]

\* POST /api/packages, while the table has a free row among `slots`.
PostPackagesWithin(u, bodyStatus, bodyKurir, slots) ==
  /\ requireRole({"admin", "superadmin"}, u)
  /\ Len(packages) < Cardinality(slots)
  /\ packages' = Append(packages, createPackage(bodyStatus, bodyKurir))
  /\ takeOk' = Append(takeOk, {})
  /\ takeTried' = Append(takeTried, {})
  /\ writes' = Append(writes, 0)
  /\ last' = 200
  /\ UNCHANGED <<attVars, role, history, scanLogs, inflight, faults>>

\* POST /api/packages on the rows the package specifications follow.
PostPackages(u, bodyStatus, bodyKurir) ==
  PostPackagesWithin(u, bodyStatus, bodyKurir, PkgSlots)

\* ------------------------------------------------------ Assignment Arbiter
\* Mutant of assignMatches: the UPDATE without its precondition.
assignMatches_unconditional(pk) == pk.status \in packageStatuses

\* The WHERE clause of the conditional UPDATE in assignPackageToKurir.
assignMatches(pk) == pk.assignedKurirId = NULL \/ pk.status = "created"

\* The SET clause of the same UPDATE.
assignSet(pk, kurirId) == [pk EXCEPT !.assignedKurirId = kurirId, !.status = "assigned"]

\* storage.assignPackageToKurir with a working history table: one
\* transaction holding the conditional UPDATE and the history INSERT.
assignPackageToKurir(p, kurirId, assignedBy) ==
  /\ p \in PkgIds
  /\ assignMatches(packages[p])
  /\ packages' = [packages EXCEPT ![p] = assignSet(packages[p], kurirId)]
  /\ history' = Append(history, HistRow(p, "created", "assigned", assignedBy))
  /\ writes' = [writes EXCEPT ![p] = @ + 1]

assignRejected(p) == p \notin PkgIds \/ ~assignMatches(packages[p])

\* PUT /api/packages/:id/assign
PutAssign(u, p, kurirId) ==
  /\ requireRole({"admin", "superadmin"}, u)
  /\ IF assignRejected(p)
       THEN /\ last' = 400
            /\ UNCHANGED <<attVars, role, pkgVars>>
       ELSE /\ Len(history) + BagCardinality(inflight) < MaxHist
            /\ assignPackageToKurir(p, kurirId, u)
            /\ last' = 200
            /\ UNCHANGED <<attVars, role, scanLogs, inflight, takeOk, takeTried, faults>>

\* POST /api/packages/:id/take, up to the call of assignPackageToKurir:
\* getPackage and the three pre-checks.
takePrecheck(p) ==
  IF p \notin PkgIds THEN 404
  ELSE IF packages[p].status # "created" THEN 400
  ELSE IF packages[p].assignedKurirId # NULL THEN 400
  ELSE 200

PostTake_Read(u, p) ==
  /\ requireRole({"kurir"}, u)
  /\ IF takePrecheck(p) # 200
       THEN /\ last' = takePrecheck(p)
            /\ UNCHANGED <<attVars, role, pkgVars>>
       ELSE /\ CanStart
            /\ Spawn(Request("take", u, p, "assign", "none", "assigned", "none"))
            /\ UNCHANGED <<attVars, role, packages, history, scanLogs, last, takeOk, takeTried, writes, faults>>

\* POST /api/packages/:id/take, the call of assignPackageToKurir and the reply.
PostTake_Assign(r) ==
  /\ r \in InFlight /\ r.op = "take" /\ r.pc = "assign"
  /\ Finish(r)
  /\ takeTried' = [takeTried EXCEPT ![r.pkg] = @ \cup {r.user}]
  /\ IF assignRejected(r.pkg)
       THEN /\ last' = 500
            /\ UNCHANGED <<attVars, role, packages, history, scanLogs, takeOk, writes, faults>>
       ELSE /\ assignPackageToKurir(r.pkg, r.user, r.user)
            /\ takeOk' = [takeOk EXCEPT ![r.pkg] = @ \cup {r.user}]
            /\ last' = 200
            /\ UNCHANGED <<attVars, role, scanLogs, faults>>

\* --------------------------------------------------------- Scan Processor
\* storage.getPackages(): the newest rows first, LIMIT 50 when called
\* without a limit; serial ids grow with created_at.
getPackages ==
  {p \in PkgIds : p > Len(packages) - ScanLimit}

\* scanBarcode: packages.find(p => p.barcode === barcode); NULL when absent.
findByBarcode(barcode) ==
  IF \E p \in getPackages : packages[p].barcode = barcode
    THEN CHOOSE p \in getPackages : packages[p].barcode = barcode
    ELSE NULL

\* Mutant of scanValid: the pickup guard is missing.
scanValid_noPickupGuard(scanType, status) ==
  ~(scanType = "delivery" /\ status # "in_transit")

\* Mutant of scanValid: the delivery guard is missing.
scanValid_noDeliveryGuard(scanType, status) ==
  ~(scanType = "pickup" /\ status # "assigned")

\* scanBarcode: the two validation guards; TRUE when the scan may proceed.
scanValid(scanType, status) ==
  /\ ~(scanType = "pickup" /\ status # "assigned")
  /\ ~(scanType = "delivery" /\ status # "in_transit")

\* scanBarcode: const newStatus = scanType === "pickup" ? "picked_up" : "delivered"
scanNewStatus(scanType) == IF scanType = "pickup" THEN "picked_up" ELSE "delivered"

\* POST /api/barcode/scan, scanBarcode up to the call of updatePackageStatus.
PostScan_Lookup(u, barcode, scanType) ==
  /\ requireRole({"kurir"}, u)
  /\ LET p == findByBarcode(barcode) IN
     IF p = NULL \/ ~scanValid(scanType, packages[p].status)
       THEN /\ last' = 400
            /\ UNCHANGED <<attVars, role, pkgVars>>
       ELSE /\ CanStart
            /\ Spawn(Request("scan", u, p, "get", scanType, scanNewStatus(scanType), "none"))
            /\ UNCHANGED <<attVars, role, packages, history, scanLogs, last, takeOk, takeTried, writes, faults>>

\* POST /api/packages/:id/pickup: getPackage and the checks before the update.
pickupPrecheck(u, p) ==
  IF p \notin PkgIds THEN 404
  ELSE IF packages[p].status # "assigned" THEN 400
  ELSE IF packages[p].assignedKurirId # u THEN 403
  ELSE 200

PostPickup_Read(u, p) ==
  /\ requireRole({"kurir"}, u)
  /\ IF pickupPrecheck(u, p) # 200
       THEN /\ last' = pickupPrecheck(u, p)
            /\ UNCHANGED <<attVars, role, pkgVars>>
       ELSE /\ CanStart
            /\ Spawn(Request("pickup", u, p, "get", "pickup", "picked_up", "none"))
            /\ UNCHANGED <<attVars, role, packages, history, scanLogs, last, takeOk, takeTried, writes, faults>>

\* POST /api/packages/:id/delivery: the notes check, getPackage and the
\* checks before the update.  hasNotes: notes && notes.trim() is truthy.
deliveryPrecheck(u, p, hasNotes) ==
  IF ~hasNotes THEN 400
  ELSE IF p \notin PkgIds THEN 404
  ELSE IF packages[p].status \notin {"picked_up", "in_transit"} THEN 400
  ELSE IF packages[p].assignedKurirId # u THEN 403
  ELSE 200

PostDelivery_Read(u, p, hasNotes) ==
  /\ requireRole({"kurir"}, u)
  /\ IF deliveryPrecheck(u, p, hasNotes) # 200
       THEN /\ last' = deliveryPrecheck(u, p, hasNotes)
            /\ UNCHANGED <<attVars, role, pkgVars>>
       ELSE /\ CanStart
            /\ Spawn(Request("delivery", u, p, "get", "delivery", "delivered", "none"))
            /\ UNCHANGED <<attVars, role, packages, history, scanLogs, last, takeOk, takeTried, writes, faults>>

\* storage.updatePackageStatus, first await: currentPackage = getPackage(id).
Ups_Get(r) ==
  /\ r \in InFlight /\ r.pc = "get"
  /\ Advance(r, [r EXCEPT !.pc = "update", !.cur = packages[r.pkg].status])
  /\ UNCHANGED <<attVars, role, packages, history, scanLogs, last, takeOk, takeTried, writes, faults>>

\* The SET clause of the UPDATE in updatePackageStatus.
statusSet(pk, status) ==
  [pk EXCEPT !.status = status,
             !.deliveredAt = IF status = "delivered" THEN TRUE ELSE @]

\* storage.updatePackageStatus, second await: UPDATE packages ... WHERE id.
Ups_Update(r) ==
  /\ r \in InFlight /\ r.pc = "update"
  /\ packages' = [packages EXCEPT ![r.pkg] = statusSet(@, r.newStatus)]
  /\ writes' = [writes EXCEPT ![r.pkg] = @ + 1]
  /\ Advance(r, [r EXCEPT !.pc = "history", !.prev = packages[r.pkg].status])
  /\ UNCHANGED <<attVars, role, history, scanLogs, last, takeOk, takeTried, faults>>

\* storage.updatePackageStatus, third await: INSERT INTO package_status_history.
Ups_History(r) ==
  /\ r \in InFlight /\ r.pc = "history"
  /\ history' = Append(history, HistRow(r.pkg, r.cur, r.newStatus, r.user))
  /\ Advance(r, [r EXCEPT !.pc = "log"])
  /\ UNCHANGED <<attVars, role, packages, scanLogs, last, takeOk, takeTried, writes, faults>>

\* storage.logBarcodeScan: INSERT INTO barcode_scan_logs; scan_type is NOT NULL,
\* so the INSERT of a row without a scan type throws and adds nothing.
logBarcodeScanThrows(scanType) == scanType = ABSENT

logBarcodeScan(p, scannedBy, scanType) ==
  scanLogs' = IF logBarcodeScanThrows(scanType)
                THEN scanLogs
                ELSE Append(scanLogs, [packageId |-> p, scannedBy |-> scannedBy, scanType |-> scanType])

\* The tail of scanBarcode and of the manual routes: logBarcodeScan, then the
\* reply; an exception of logBarcodeScan is answered 400 by the scan route.
LogScan(r) ==
  /\ r \in InFlight /\ r.pc = "log"
  /\ logBarcodeScan(r.pkg, r.user, r.scanType)
  /\ Finish(r)
  /\ last' = IF logBarcodeScanThrows(r.scanType) THEN 400 ELSE 200
  /\ UNCHANGED <<attVars, role, packages, history, takeOk, takeTried, writes, faults>>

\* ------------------------------------------------ a failing history INSERT
\* storage.updatePackageStatus when the INSERT of the history row throws:
\* the UPDATE before it ran on its own (no transaction) and stays; the
\* exception leaves scanBarcode / the route before logBarcodeScan.
Ups_HistoryFails(r) ==
  /\ r \in InFlight /\ r.pc = "history"
  /\ faults < MaxFaults
  /\ faults' = faults + 1
  /\ Finish(r)
  /\ last' = IF r.op = "scan" THEN 400 ELSE 500
  /\ UNCHANGED <<attVars, role, packages, history, scanLogs, takeOk, takeTried, writes>>

\* storage.assignPackageToKurir when the INSERT of the history row throws:
\* the error is caught and COMMIT is sent, which PostgreSQL answers with a
\* rollback of the aborted transaction, so the UPDATE is undone; the function
\* still returns the row that RETURNING gave it.
assignPackageToKurir_HistoryFails(p) ==
  /\ p \in PkgIds
  /\ assignMatches(packages[p])
  /\ faults < MaxFaults
  /\ faults' = faults + 1
  /\ UNCHANGED <<packages, history, writes>>

\* PUT /api/packages/:id/assign with a failing history INSERT.
PutAssign_HistoryFails(u, p) ==
  /\ requireRole({"admin", "superadmin"}, u)
  /\ assignPackageToKurir_HistoryFails(p)
  /\ last' = 200
  /\ UNCHANGED <<attVars, role, scanLogs, inflight, takeOk, takeTried>>

\* POST /api/packages/:id/take with a failing history INSERT.
PostTake_Assign_HistoryFails(r) ==
  /\ r \in InFlight /\ r.op = "take" /\ r.pc = "assign"
  /\ assignPackageToKurir_HistoryFails(r.pkg)
  /\ Finish(r)
  /\ takeTried' = [takeTried EXCEPT ![r.pkg] = @ \cup {r.user}]
  /\ takeOk' = [takeOk EXCEPT ![r.pkg] = @ \cup {r.user}]
  /\ last' = 200
  /\ UNCHANGED <<attVars, role, scanLogs>>

\* ------------------------------------------- Geofence Store and distance
\* GeofencingService.calculateDistance: the haversine formula; for two points
\* of one meridian it is the length of the arc between them.  A NaN operand
\* gives NaN, which is below no radius.
calculateDistance(a, b) ==
  IF a = NAN THEN NAN ELSE IF a > b THEN a - b ELSE b - a

\* storage.getActiveGeofenceZones: WHERE is_active = true.
getActiveGeofenceZones ==
  {z \in DOMAIN zones : ~zones[z].deleted /\ zones[z].isActive}

\* Mutant of validateLocation: the zones are not filtered by isActive.
validateLocation_anyZone(loc) ==
  \E z \in DOMAIN zones :
    /\ ~zones[z].deleted
    /\ calculateDistance(loc, zones[z].centerLat) # NAN
    /\ calculateDistance(loc, zones[z].centerLat) <= zones[z].radius

\* Mutant of validateLocation: the boundary of a zone is outside it.
validateLocation_strict(loc) ==
  \E z \in getActiveGeofenceZones :
    /\ calculateDistance(loc, zones[z].centerLat) # NAN
    /\ calculateDistance(loc, zones[z].centerLat) < zones[z].radius

\* GeofencingService.validateLocation
validateLocation(loc) ==
  \E z \in getActiveGeofenceZones :
    /\ calculateDistance(loc, zones[z].centerLat) # NAN
    /\ calculateDistance(loc, zones[z].centerLat) <= zones[z].radius

\* POST /api/geofence: insertGeofenceZoneSchema.parse(req.body), which puts no
\* range on the integer radius, then storage.createGeofenceZone.  slots: the
\* ids the table can give out.
PostGeofenceWithin(u, center, radius, isActive, slots) ==
  /\ requireRole({"superadmin", "admin"}, u)
  /\ Len(zones) < Cardinality(slots)
  /\ zones' = Append(zones, [centerLat |-> center, radius |-> radius,
                             isActive |-> isActive, deleted |-> FALSE])
  /\ last' = 200
  /\ UNCHANGED <<role, pkgVars, attendance, attInflight, today>>

PostGeofence(u, center, radius, isActive) ==
  PostGeofenceWithin(u, center, radius, isActive, ZoneSlots)

\* PUT /api/geofence/:id
PutGeofence(u, z, radius, isActive) ==
  /\ requireRole({"superadmin", "admin"}, u)
  /\ z \in DOMAIN zones /\ ~zones[z].deleted
  /\ zones' = [zones EXCEPT ![z].radius = radius, ![z].isActive = isActive]
  /\ last' = 200
  /\ UNCHANGED <<role, pkgVars, attendance, attInflight, today>>

\* DELETE /api/geofence/:id
DeleteGeofence(u, z) ==
  /\ requireRole({"superadmin", "admin"}, u)
  /\ z \in DOMAIN zones /\ ~zones[z].deleted
  /\ zones' = [zones EXCEPT ![z].deleted = TRUE]
  /\ last' = 200
  /\ UNCHANGED <<role, pkgVars, attendance, attInflight, today>>

\* ---------------------------------------------------- Attendance Workflow
AttInFlight == BagToSet(attInflight)

AttRequest(op, user, pc, loc, day, rec, inZone) ==
  [op |-> op, user |-> user, pc |-> pc, loc |-> loc, day |-> day, rec |-> rec,
   inZone |-> inZone]

\* The containment predicate of the specification, evaluated on the stored
\* zones: some active zone has the point within its radius.
WithinAnyActiveZone(loc) ==
  /\ loc # NAN
  /\ \E z \in DOMAIN zones :
       /\ ~zones[z].deleted /\ zones[z].isActive
       /\ (IF loc > zones[z].centerLat THEN loc - zones[z].centerLat
           ELSE zones[z].centerLat - loc) <= zones[z].radius

\* storage.getAttendanceByDate: the rows of the courier whose date lies
\* between the start and the end of the day; the caller takes the first row
\* the store returns.
getAttendanceByDate(kurirId, date) ==
  {a \in DOMAIN attendance :
     attendance[a].kurirId = kurirId /\ attendance[a].date = date}

\* storage.createAttendance as called by the check-in route.  inZone and
\* checkedOut are history fields: whether the coordinates lay within an active
\* zone when they were validated, and whether a check-out has been answered
\* 200 on the row.
createAttendance(kurirId, date, loc, inZone) ==
  [kurirId |-> kurirId, date |-> date, checkInLat |-> loc, checkOutTime |-> FALSE,
   status |-> "present", approvedBy |-> NULL, inZone |-> inZone, checkedOut |-> FALSE]

\* storage.updateAttendanceStatus: UPDATE attendance SET status, approved_by
\* WHERE id; a status the caller leaves undefined is not written.
attendanceSet(a, status, approvedBy) ==
  [attendance EXCEPT
     ![a].status = IF status = ABSENT THEN @ ELSE status,
     ![a].approvedBy = approvedBy]

updateAttendanceStatus(a, status, approvedBy) ==
  attendance' = attendanceSet(a, status, approvedBy)

\* POST /api/attendance/checkin, first await: validateLocation.
CheckIn_Validate(u, loc) ==
  /\ requireRole({"kurir"}, u)
  /\ IF ~validateLocation(loc)
       THEN /\ last' = 400
            /\ UNCHANGED <<role, pkgVars, attVars>>
       ELSE /\ BagCardinality(attInflight) < MaxReq
            /\ Len(attendance) + BagCardinality(attInflight) < MaxAtt
            /\ attInflight' = attInflight (+)
                 SetToBag({AttRequest("checkin", u, "lookup", loc, NULL, NULL,
                                      WithinAnyActiveZone(loc))})
            /\ UNCHANGED <<role, pkgVars, zones, attendance, today, last>>

\* The check-in that is answered "Check-in location is outside allowed area".
OutsideGeofenceReply(u, loc) == CheckIn_Validate(u, loc) /\ ~validateLocation(loc)

\* POST /api/attendance/checkin, second await: today = new Date() and
\* getAttendanceByDate.
CheckIn_Lookup(r) ==
  /\ r \in AttInFlight /\ r.op = "checkin" /\ r.pc = "lookup"
  /\ IF getAttendanceByDate(r.user, today) # {}
       THEN /\ attInflight' = attInflight (-) SetToBag({r})
            /\ last' = 400
       ELSE /\ attInflight' = (attInflight (-) SetToBag({r})) (+)
                                SetToBag({[r EXCEPT !.pc = "insert", !.day = today]})
            /\ UNCHANGED last
  /\ UNCHANGED <<role, pkgVars, zones, attendance, today>>

\* POST /api/attendance/checkin, third await: createAttendance, then the reply.
CheckIn_Insert(r) ==
  /\ r \in AttInFlight /\ r.op = "checkin" /\ r.pc = "insert"
  /\ attendance' = Append(attendance, createAttendance(r.user, r.day, r.loc, r.inZone))
  /\ attInflight' = attInflight (-) SetToBag({r})
  /\ last' = 200
  /\ UNCHANGED <<role, pkgVars, zones, today>>

\* POST /api/attendance/checkout, first await: getAttendanceByDate and the
\* two guards.
CheckOut_Lookup(u, loc) ==
  /\ requireRole({"kurir"}, u)
  /\ IF getAttendanceByDate(u, today) = {}
       THEN /\ last' = 400
            /\ UNCHANGED <<role, pkgVars, attVars>>
       ELSE \E a \in getAttendanceByDate(u, today) :
              IF attendance[a].checkOutTime
                THEN /\ last' = 400
                     /\ UNCHANGED <<role, pkgVars, attVars>>
                ELSE /\ BagCardinality(attInflight) < MaxReq
                     /\ attInflight' = attInflight (+)
                          SetToBag({AttRequest("checkout", u, "update", NULL, NULL, a, FALSE)})
                     /\ UNCHANGED <<role, pkgVars, zones, attendance, today, last>>

\* POST /api/attendance/checkout, second await:
\* updateAttendanceStatus(attendance.id, "present", req.user.id).
CheckOut_Update(r) ==
  /\ r \in AttInFlight /\ r.op = "checkout" /\ r.pc = "update"
  /\ attendance' = [attendanceSet(r.rec, "present", r.user) EXCEPT ![r.rec].checkedOut = TRUE]
  /\ attInflight' = attInflight (-) SetToBag({r})
  /\ last' = 200
  /\ UNCHANGED <<role, pkgVars, zones, today>>

\* PUT /api/attendance/:id/approve
Review(u, a, status) ==
  /\ requireRole({"pic", "admin", "superadmin"}, u)
  /\ IF a \notin DOMAIN attendance
       THEN /\ last' = 404
            /\ UNCHANGED <<role, pkgVars, attVars>>
       ELSE /\ updateAttendanceStatus(a, status, u)
            /\ last' = 200
            /\ UNCHANGED <<role, pkgVars, zones, attInflight, today>>

\* PUT /api/users/:id changing the role (storage.updateUser).
PutUserRole(u, target, newRole) ==
  /\ requireRole({"superadmin", "admin"}, u)
  /\ role' = [role EXCEPT ![target] = newRole]
  /\ last' = 200
  /\ UNCHANGED <<pkgVars, attVars>>

\* Midnight passes.
NextDay ==
  /\ today + 1 \in Days
  /\ today' = today + 1
  /\ UNCHANGED <<role, pkgVars, zones, attendance, attInflight, last>>

\* ---------------------------------------------------------- Specification
Init ==
  /\ role = [u \in Users |-> IF u \in Kurirs THEN "kurir" ELSE "admin"]
  /\ packages = <<>>
  /\ history = <<>>
  /\ scanLogs = <<>>
  /\ inflight = EmptyBag
  /\ last = 200
  /\ takeOk = <<>>
  /\ takeTried = <<>>
  /\ writes = <<>>
  /\ faults = 0
  /\ zones = <<>>
  /\ attendance = <<>>
  /\ attInflight = EmptyBag
  /\ today = 1

Next ==
  \/ \E u \in Users, s \in BodyStatuses, k \in BodyKurirs : PostPackages(u, s, k)
  \/ \E u \in Users, p \in PkgSlots, k \in Kurirs \cup {NULL} : PutAssign(u, p, k)
  \/ \E u \in Users, p \in PkgSlots : PostTake_Read(u, p)
  \/ \E r \in InFlight : PostTake_Assign(r)
  \/ \E u \in Users, b \in PkgSlots, t \in ScanTypes : PostScan_Lookup(u, b, t)
  \/ \E u \in Users, p \in PkgSlots : PostPickup_Read(u, p)
  \/ \E u \in Users, p \in PkgSlots, n \in BOOLEAN : PostDelivery_Read(u, p, n)
  \/ \E r \in InFlight : Ups_Get(r)
  \/ \E r \in InFlight : Ups_Update(r)
  \/ \E r \in InFlight : Ups_History(r)
  \/ \E r \in InFlight : LogScan(r)

Spec == Init /\ [][Next]_vars

\* The same system when the history table can fail.
NextFault ==
  \/ Next
  \/ \E r \in InFlight : Ups_HistoryFails(r)
  \/ \E u \in Users, p \in PkgSlots : PutAssign_HistoryFails(u, p)
  \/ \E r \in InFlight : PostTake_Assign_HistoryFails(r)

SpecFault == Init /\ [][NextFault]_vars

\* The barcode lookup over a table that grows past the limit of getPackages():
\* packages are created with the defaults and scanned by barcode.
NextLookup ==
  \/ \E u \in Users : PostPackagesWithin(u, ABSENT, NULL, LookupSlots)
  \/ \E u \in Users, b \in LookupBarcodes, t \in {"pickup", "other"} : PostScan_Lookup(u, b, t)
  \/ \E r \in InFlight : Ups_Get(r)
  \/ \E r \in InFlight : Ups_Update(r)
  \/ \E r \in InFlight : Ups_History(r)
  \/ \E r \in InFlight : LogScan(r)

SpecLookup == Init /\ [][NextLookup]_vars

\* The attendance workflow with the geofence store and the user roles, within
\* one calendar date.
NextAtt ==
  \/ \E u \in AttUsers, c \in Centers, rad \in Radii, act \in BOOLEAN : PostGeofence(u, c, rad, act)
  \/ \E u \in AttUsers, z \in ZoneSlots, rad \in Radii, act \in BOOLEAN : PutGeofence(u, z, rad, act)
  \/ \E u \in AttUsers, z \in ZoneSlots : DeleteGeofence(u, z)
  \/ \E u \in AttUsers, loc \in Locations \cup {NAN} : CheckIn_Validate(u, loc)
  \/ \E r \in AttInFlight : CheckIn_Lookup(r)
  \/ \E r \in AttInFlight : CheckIn_Insert(r)
  \/ \E u \in AttUsers, loc \in Locations \cup {NAN} : CheckOut_Lookup(u, loc)
  \/ \E r \in AttInFlight : CheckOut_Update(r)
  \/ \E u \in AttUsers, a \in 1..MaxAtt, st \in ReviewStatuses : Review(u, a, st)
  \/ \E u \in AttUsers, t \in AttUsers \cap Kurirs, nr \in {"kurir", "pic"} : PutUserRole(u, t, nr)

SpecAtt == Init /\ [][NextAtt]_vars

\* The attendance workflow over two calendar dates.
NextAttDays ==
  \/ NextAtt
  \/ NextDay

SpecAttDays == Init /\ [][NextAttDays]_vars

\* The geofence store with two zones and radii on both sides of the range of
\* the zone form, and the check-in that validates a position against it.
NextGeo ==
  \/ \E u \in AttUsers, c \in Centers, rad \in GeoRadii, act \in BOOLEAN :
       PostGeofenceWithin(u, c, rad, act, GeoSlots)
  \/ \E u \in AttUsers, z \in GeoSlots, rad \in GeoRadii, act \in BOOLEAN : PutGeofence(u, z, rad, act)
  \/ \E u \in AttUsers, z \in GeoSlots : DeleteGeofence(u, z)
  \/ \E u \in AttUsers, loc \in GeoLocations : CheckIn_Validate(u, loc)
  \/ \E r \in AttInFlight : CheckIn_Lookup(r)
  \/ \E r \in AttInFlight : CheckIn_Insert(r)

SpecGeo == Init /\ [][NextGeo]_vars

\* ------------------------------------------------------------------ claims
Status(p)   == packages[p].status
Assignee(p) == packages[p].assignedKurirId

\* History rows of an assignment of package p.
AssignRows(p) ==
  {i \in DOMAIN history : history[i].packageId = p /\ history[i].toStatus = "assigned"}

\* Package p was assigned by PUT /assign (the row is written by a staff user).
StaffAssigned(p) == \E i \in AssignRows(p) : history[i].changedBy \in Staff

\* C1: of the couriers whose POST /take raced on a package that was created
\* and unassigned, exactly one is answered 200 and the others fail; the
\* package is then assigned to that winner, with status assigned as long as
\* no later status update has run on it.
C1_ClaimRace ==
  \A p \in PkgIds :
    /\ Cardinality(takeOk[p]) <= 1
    /\ \A k \in takeOk[p] :
         /\ Assignee(p) = k
         /\ Status(p) # "created"
         /\ writes[p] = Cardinality(AssignRows(p)) => Status(p) = "assigned"
    /\ (takeTried[p] # {} /\ ~StaffAssigned(p)) => Cardinality(takeOk[p]) = 1

\* Both couriers passed the pre-checks and ran the conditional UPDATE; one
\* won, the other was answered 500 last.
C1_Witness ==
  \E p \in PkgIds :
    /\ takeTried[p] = Kurirs
    /\ Cardinality(takeOk[p]) = 1
    /\ Assignee(p) \in takeOk[p]
    /\ last = 500

\* C2: every package has an assignee if and only if its status is not created.
C2_AssigneeIffNotCreated ==
  \A p \in PkgIds : (Assignee(p) # NULL) <=> (Status(p) # "created")

\* C3: no step moves a package's status backwards in the canonical order,
\* and a delivered or failed package never changes status again.
C3_NoRegression ==
  [][\A p \in PkgIds :
       /\ Rank(packages'[p].status) >= Rank(packages[p].status)
       /\ Terminal(packages[p].status) => packages'[p].status = packages[p].status]_vars

\* C4: PUT /assign on a package that is not (created, unassigned) is answered
\* with an error and leaves the package row as it was.
C4_AssignOnlyFromCreated ==
  [][\A u \in Users, p \in PkgSlots, k \in Kurirs \cup {NULL} :
       (/\ PutAssign(u, p, k)
        /\ p \in PkgIds
        /\ ~(packages[p].status = "created" /\ packages[p].assignedKurirId = NULL))
       => (last' = 400 /\ packages' = packages)]_vars

\* C5: when no request is in flight, every committed update of a package's
\* status has its history row.
C5_AllOrNothing ==
  AllIdle => \A p \in PkgIds : HistCount(p) = writes[p]

\* C6: no two attendance rows belong to the same courier and calendar date.
C6_OneRecordPerDay ==
  \A a, b \in DOMAIN attendance :
    (attendance[a].kurirId = attendance[b].kurirId /\ attendance[a].date = attendance[b].date)
      => a = b

\* Every attendance row, and every check-in on its way to one, was let through
\* at coordinates that lay within an active zone at that time.
CheckedInWithinZone ==
  /\ \A a \in DOMAIN attendance : attendance[a].inZone
  /\ \A r \in AttInFlight : r.op = "checkin" => r.inZone

\* A check-in from outside every active zone is answered 400 and neither
\* creates a row nor goes on.
OutsideCheckInRejected ==
  [][\A u \in AttUsers, loc \in Locations \cup {NAN} :
       (CheckIn_Validate(u, loc) /\ ~WithinAnyActiveZone(loc))
         => (last' = 400 /\ UNCHANGED <<attendance, attInflight>>)]_vars

\* C7: every attendance row, and every check-in on its way to one, was let
\* through at coordinates that lay within an active zone at that time; a
\* check-in from outside every active zone is answered 400 and neither
\* creates a row nor goes on.
C7_GeofenceGate == []CheckedInWithinZone /\ OutsideCheckInRejected

\* A check-in from the boundary of the zone has created its row, and the
\* zone has been deactivated since.
C7_Witness ==
  /\ \E a \in DOMAIN attendance : attendance[a].checkInLat = 10 /\ attendance[a].inZone
  /\ \E z \in DOMAIN zones : ~zones[z].isActive
  /\ last = 200

\* C8: a review of a row that is already approved or rejected is answered
\* with an error and leaves the row as it was.
C8_ReviewOnlyPending ==
  [][\A u \in AttUsers, a \in 1..MaxAtt, st \in ReviewStatuses :
       (/\ Review(u, a, st)
        /\ a \in DOMAIN attendance
        /\ attendance[a].status \in {"approved", "rejected"})
       => (last' # 200 /\ attendance' = attendance)]_vars

\* C9: a review by the courier who owns the row is answered 403 and leaves
\* the row as it was.
C9_NoSelfReview ==
  [][\A u \in AttUsers, a \in 1..MaxAtt, st \in ReviewStatuses :
       (/\ Review(u, a, st)
        /\ a \in DOMAIN attendance
        /\ attendance[a].kurirId = u)
       => (last' = 403 /\ attendance' = attendance)]_vars

\* C10: a pickup scan goes on to updatePackageStatus only when the package's
\* status is assigned, and then writes picked_up; on any other status it is
\* answered 400 and the package, the history, the scan log and the requests
\* in flight stay as they were.
C10_PickupScan ==
  [][/\ \A u \in Users, b \in PkgSlots :
          PostScan_Lookup(u, b, "pickup") =>
            IF findByBarcode(b) # NULL /\ packages[findByBarcode(b)].status = "assigned"
              THEN /\ Cardinality(InFlight') >= 1
                   /\ UNCHANGED <<packages, history, scanLogs, last>>
              ELSE /\ last' = 400
                   /\ UNCHANGED <<packages, history, scanLogs, inflight>>
     /\ \A r \in InFlight :
          (r.op = "scan" /\ r.scanType = "pickup" /\ Ups_Update(r)) =>
            packages'[r.pkg].status = "picked_up"]_vars

\* A pickup scan found the package assigned and has set it to picked_up.
C10_Witness ==
  \E r \in InFlight :
    /\ r.op = "scan" /\ r.scanType = "pickup" /\ r.pc = "history"
    /\ r.cur = "assigned"
    /\ Status(r.pkg) = "picked_up"

\* C11: a delivery scan goes on to updatePackageStatus only when the package's
\* status is in_transit, and then writes delivered and stamps deliveredAt; on
\* any other status, picked_up included, it is answered 400 and the package,
\* the history, the scan log and the requests in flight stay as they were.
C11_DeliveryScan ==
  [][/\ \A u \in Users, b \in PkgSlots :
          PostScan_Lookup(u, b, "delivery") =>
            IF findByBarcode(b) # NULL /\ packages[findByBarcode(b)].status = "in_transit"
              THEN /\ Cardinality(InFlight') >= 1
                   /\ UNCHANGED <<packages, history, scanLogs, last>>
              ELSE /\ last' = 400
                   /\ UNCHANGED <<packages, history, scanLogs, inflight>>
     /\ \A r \in InFlight :
          (r.op = "scan" /\ r.scanType = "delivery" /\ Ups_Update(r)) =>
            /\ packages'[r.pkg].status = "delivered"
            /\ packages'[r.pkg].deliveredAt]_vars

\* A delivery scan found the package in_transit and has set it to delivered.
C11_Witness ==
  \E r \in InFlight :
    /\ r.op = "scan" /\ r.scanType = "delivery" /\ r.pc = "history"
    /\ r.cur = "in_transit"
    /\ Status(r.pkg) = "delivered" /\ packages[r.pkg].deliveredAt

\* C12: every stored package is found by a scan of its barcode, however many
\* packages were created after it: the lookup of scanBarcode resolves the
\* barcode of each stored package to that package.
C12_LookupResolves ==
  \A p \in PkgIds : findByBarcode(packages[p].barcode) = p

\* C13: a check-out from coordinates outside every active zone is answered
\* 400 and neither changes the attendance rows nor goes on to the update.
C13_CheckOutGeofence ==
  [][\A u \in AttUsers, loc \in Locations \cup {NAN} :
       (CheckOut_Lookup(u, loc) /\ ~WithinAnyActiveZone(loc))
         => (last' = 400 /\ UNCHANGED <<attendance, attInflight>>)]_vars

\* C14: the update of a successful check-out sets checkOutTime on the row and
\* leaves its status and approvedBy as they were.
C14_CheckOutFrame ==
  [][\A r \in AttInFlight :
       CheckOut_Update(r) =>
         /\ attendance'[r.rec].checkOutTime
         /\ attendance'[r.rec].status = attendance[r.rec].status
         /\ attendance'[r.rec].approvedBy = attendance[r.rec].approvedBy]_vars

\* C15: a check-out by a courier without a row for today is answered 400 and
\* changes nothing, and no check-out is answered 200 on a row on which a
\* check-out was answered 200 before.
C15_CheckOutErrors ==
  [][/\ \A u \in AttUsers, loc \in Locations \cup {NAN} :
          (CheckOut_Lookup(u, loc) /\ getAttendanceByDate(u, today) = {})
            => (last' = 400 /\ UNCHANGED <<attendance, attInflight>>)
     /\ \A r \in AttInFlight :
          CheckOut_Update(r) => ~attendance[r.rec].checkedOut]_vars

\* C16: a check-in by a courier who has a row for today is not answered by the
\* geofence check (it is left to the duplicate check, whatever the location and
\* the zones), and no check-in inserts a row for a courier and date that
\* already have one.
C16_DuplicateCheckIn ==
  [][/\ \A u \in AttUsers, loc \in Locations \cup {NAN} :
          getAttendanceByDate(u, today) # {} => ~OutsideGeofenceReply(u, loc)
     /\ \A r \in AttInFlight :
          CheckIn_Insert(r) => getAttendanceByDate(r.user, r.day) = {}]_vars

\* C17: the history is append-only, and every row that is appended carries as
\* fromStatus the status the package had immediately before the change the
\* row belongs to, and as toStatus the status that change wrote: for the row
\* of updatePackageStatus the status its UPDATE replaced, for the row of
\* assignPackageToKurir the status before the assignment.
C17_HistoryFaithful ==
  [][/\ Len(history') >= Len(history)
     /\ SubSeq(history', 1, Len(history)) = history
     /\ \A r \in InFlight :
          Ups_History(r) =>
            /\ history'[Len(history')].fromStatus = r.prev
            /\ history'[Len(history')].toStatus = r.newStatus
     /\ \A p \in PkgIds :
          (packages'[p] # packages[p] /\ Len(history') = Len(history) + 1) =>
            /\ history'[Len(history')].packageId = p
            /\ history'[Len(history')].fromStatus = packages[p].status
            /\ history'[Len(history')].toStatus = packages'[p].status]_vars

\* Scan-log rows of package p with the given scan type, and history rows of
\* package p into the given status.
LogRows(p, scanType) ==
  {i \in DOMAIN scanLogs : scanLogs[i].packageId = p /\ scanLogs[i].scanType = scanType}
RowsInto(p, status) ==
  {i \in DOMAIN history : history[i].packageId = p /\ history[i].toStatus = status}

\* The log rows of type pickup of a package never outnumber its transitions
\* to picked_up, likewise delivery and delivered.
LogsWithinTransitions ==
  \A p \in PkgIds :
    /\ Cardinality(LogRows(p, "pickup")) <= Cardinality(RowsInto(p, "picked_up"))
    /\ Cardinality(LogRows(p, "delivery")) <= Cardinality(RowsInto(p, "delivered"))

\* A scan that is rejected at the lookup appends no log row, and a scan whose
\* status change has been applied ends by appending exactly its log row, with
\* the package, the scanning user and the scan type.
ScanStepsLogged ==
  [][/\ \A u \in Users, b \in PkgSlots, st \in ScanTypes :
          (PostScan_Lookup(u, b, st) /\ last' = 400) => scanLogs' = scanLogs
     /\ \A r \in InFlight :
          (r.op = "scan" /\ LogScan(r)) =>
            scanLogs' = Append(scanLogs, [packageId |-> r.pkg, scannedBy |-> r.user,
                                          scanType |-> r.scanType])]_vars

\* C18: a successful scan applies the status change and then appends exactly
\* one log row for the package with the scanning user and the scan type, a
\* failed scan appends none, and no scan-driven status change is left without
\* its log row; the log rows never outnumber the transitions.
C18_ScanLogged == []LogsWithinTransitions /\ ScanStepsLogged

\* C19: the row that POST /api/packages stores has status created, no assignee
\* and no deliveredAt, whatever status and assignee its body carries.
C19_CreateDefaults ==
  [][\A u \in Users, s \in BodyStatuses, k \in BodyKurirs :
       PostPackages(u, s, k) =>
         /\ packages'[Len(packages')].status = "created"
         /\ packages'[Len(packages')].assignedKurirId = NULL
         /\ ~packages'[Len(packages')].deliveredAt]_vars

\* Some operation of the package routes can be started, or can take its next
\* step, so that package p is set to failed or a request that will write
\* failed to it is in flight.
FailStep(p) ==
  /\ Next
  /\ \/ packages'[p].status = "failed"
     \/ \E r \in InFlight' : r.pkg = p /\ r.newStatus = "failed"

\* While no request is in flight, every assigned, picked_up or in_transit
\* package has an operation that moves it to failed.
FailReachable ==
  \A p \in PkgIds :
    (AllIdle /\ Len(history) < MaxHist /\ Status(p) \in {"assigned", "picked_up", "in_transit"})
      => ENABLED FailStep(p)

\* No step changes the status of a failed package.
FailedIsFinal ==
  [][\A p \in PkgIds :
       packages[p].status = "failed" => packages'[p].status = "failed"]_vars

\* C20: from every assigned, picked_up or in_transit package state there is a
\* staff or courier operation that moves the package to failed, and a failed
\* package never changes status.
C20_FailedReachableAndFinal == []FailReachable /\ FailedIsFinal

\* C21: a review that is answered 200 carried the decision approved or
\* rejected, and has set the row's status to it and approvedBy to the
\* reviewer; a review that carries any other status is answered with an error
\* and leaves the rows as they were; and a row becomes approved or rejected
\* only in a review step.
C21_ReviewDecision ==
  [][/\ \A u \in AttUsers, a \in 1..MaxAtt, st \in ReviewStatuses :
          (Review(u, a, st) /\ a \in DOMAIN attendance) =>
            IF st \in {"approved", "rejected"}
              THEN last' = 200 =>
                     /\ attendance'[a].status = st
                     /\ attendance'[a].approvedBy = u
              ELSE last' # 200 /\ attendance' = attendance
     /\ \A a \in DOMAIN attendance :
          (/\ attendance'[a].status \in {"approved", "rejected"}
           /\ attendance'[a].status # attendance[a].status)
          => \E u \in AttUsers : Review(u, a, attendance'[a].status)]_vars

\* C22: in every reachable state a package has its deliveredAt stamp if and
\* only if its status is delivered.
C22_DeliveredAtIffDelivered ==
  \A p \in PkgIds : packages[p].deliveredAt <=> (Status(p) = "delivered")

\* C23: for the assignee of a package, the manual pickup route lets through
\* exactly the statuses the pickup scan lets through, and the manual delivery
\* route (with notes) exactly the statuses the delivery scan lets through; the
\* status update of a manual request writes what the scan of the same type
\* writes; and a manual delivery whose notes are missing, empty or blank is
\* answered 400 and leaves the package, the history, the scan log and the
\* requests in flight as they were.
C23_ManualMatchesScan ==
  [][/\ \A u \in Users, p \in PkgIds :
          (PostPickup_Read(u, p) /\ Assignee(p) = u) =>
            ((inflight' # inflight) <=> scanValid("pickup", Status(p)))
     /\ \A u \in Users, p \in PkgIds :
          (PostDelivery_Read(u, p, TRUE) /\ Assignee(p) = u) =>
            ((inflight' # inflight) <=> scanValid("delivery", Status(p)))
     /\ \A r \in InFlight :
          (r.op \in {"pickup", "delivery"} /\ Ups_Update(r)) =>
            packages'[r.pkg] = statusSet(packages[r.pkg], scanNewStatus(r.scanType))
     /\ \A u \in Users, p \in PkgSlots :
          PostDelivery_Read(u, p, FALSE) =>
            (last' = 400 /\ UNCHANGED <<packages, history, scanLogs, inflight>>)]_vars

\* The point at distance d from the centre of zone z, along the meridian.
PointAt(z, d) == zones[z].centerLat + d

\* C24: validateLocation answers true for a position if and only if some
\* active zone has the position within its radius: for every active zone of
\* radius r the points at distance r-1 and r are inside, the point at distance
\* r+1 is outside unless another active zone holds it, and a position that
\* only inactive zones hold is outside.
C24_Containment ==
  /\ \A loc \in GeoLocations \cup {NAN} : validateLocation(loc) <=> WithinAnyActiveZone(loc)
  /\ \A z \in getActiveGeofenceZones :
       /\ validateLocation(PointAt(z, zones[z].radius - 1))
       /\ validateLocation(PointAt(z, zones[z].radius))
       /\ (\A y \in getActiveGeofenceZones :
             calculateDistance(PointAt(z, zones[z].radius + 1), zones[y].centerLat) > zones[y].radius)
           => ~validateLocation(PointAt(z, zones[z].radius + 1))
  /\ \A z \in DOMAIN zones :
       (getActiveGeofenceZones = {}) =>
         /\ ~validateLocation(PointAt(z, 0))
         /\ ~validateLocation(PointAt(z, zones[z].radius))

\* An active zone of radius 10 and an inactive zone of radius 5000 are stored;
\* a check-in from the boundary of the active zone has created its row, and a
\* check-in from a position that only the inactive zone holds was answered 400.
C24_Witness ==
  /\ \E z \in getActiveGeofenceZones : zones[z].radius = 10
  /\ \A z \in getActiveGeofenceZones : zones[z].radius = 10
  /\ \E z \in DOMAIN zones :
       ~zones[z].deleted /\ ~zones[z].isActive /\ zones[z].radius = 5000
  /\ \E a \in DOMAIN attendance : attendance[a].checkInLat = 10
  /\ last = 400

\* The radius range of the zone form (geofenceFormSchema), in metres.
RadiusRange == 10..5000

\* Every stored zone has a radius within the range.
ZoneRadiiInRange ==
  \A z \in DOMAIN zones : ~zones[z].deleted => zones[z].radius \in RadiusRange

\* A create or an update of a zone with a radius outside the range is answered
\* 400 and leaves the stored zones as they were.
RadiusOutOfRangeRejected ==
  [][\A u \in AttUsers, c \in Centers, z \in GeoSlots, rad \in GeoRadii \ RadiusRange, act \in BOOLEAN :
       (PostGeofenceWithin(u, c, rad, act, GeoSlots) \/ PutGeofence(u, z, rad, act))
         => (last' = 400 /\ zones' = zones)]_vars

\* C25: every zone stored by POST /api/geofence or PUT /api/geofence/:id has
\* a radius between 10 and 5000 metres inclusive, and a request with a radius
\* outside that range is answered 400 and leaves the stored zones as they were.
C25_RadiusRange == []ZoneRadiiInRange /\ RadiusOutOfRangeRejected

\* Every row of the scan log has scan type pickup or delivery.
ScanLogTypes ==
  \A i \in DOMAIN scanLogs : scanLogs[i].scanType \in {"pickup", "delivery"}

\* A scan whose scan type is missing or is another string is answered 400 and
\* leaves the packages, the history, the scan log and the requests in flight
\* as they were.
BadScanTypeRejected ==
  [][\A u \in Users, b \in PkgSlots, st \in ScanTypes \ {"pickup", "delivery"} :
       PostScan_Lookup(u, b, st) =>
         (last' = 400 /\ UNCHANGED <<packages, history, scanLogs, inflight>>)]_vars

\* C26: a scan whose scanType is neither pickup nor delivery (missing or any
\* other string) is rejected and leaves the package status, the history and
\* the scan log unchanged, and every row of the scan log has scan type pickup
\* or delivery.
C26_ScanTypeValidated == []ScanLogTypes /\ BadScanTypeRejected

\* C27: every update that writes picked_up or delivered is made for the user
\* the package is assigned to, and a scan, a manual pickup or a manual delivery
\* by a courier the package is not assigned to is answered with an error and
\* starts no update.
C27_OnlyAssigneeAdvances ==
  [][/\ \A r \in InFlight :
          (Ups_Update(r) /\ r.newStatus \in {"picked_up", "delivered"}) =>
            r.user = packages[r.pkg].assignedKurirId
     /\ \A u \in Users, b \in PkgSlots, st \in ScanTypes :
          (/\ PostScan_Lookup(u, b, st)
           /\ findByBarcode(b) # NULL
           /\ Assignee(findByBarcode(b)) # u)
          => (last' \in {400, 403} /\ UNCHANGED <<packages, history, scanLogs, inflight>>)
     /\ \A u \in Users, p \in PkgIds, n \in BOOLEAN :
          ((PostPickup_Read(u, p) \/ PostDelivery_Read(u, p, n)) /\ Assignee(p) # u)
          => (last' \in {400, 403} /\ UNCHANGED <<packages, history, scanLogs, inflight>>)]_vars

\* C28: no step changes or clears the assignee of a package that has one.
C28_AssigneeImmutable ==
  [][\A p \in PkgIds :
       Assignee(p) # NULL => packages'[p].assignedKurirId = Assignee(p)]_vars

\* Every row with an approver is approved or rejected, and its approver is
\* not the courier of the row.
ApprovedByOnlyReviewed ==
  \A a \in DOMAIN attendance :
    attendance[a].approvedBy # NULL =>
      /\ attendance[a].status \in {"approved", "rejected"}
      /\ attendance[a].approvedBy # attendance[a].kurirId

\* The row a check-in inserts has no approver, and a check-out leaves the
\* approver of its row as it was.
AttendanceNeverApproves ==
  [][\A r \in AttInFlight :
       /\ CheckIn_Insert(r) => attendance'[Len(attendance')].approvedBy = NULL
       /\ CheckOut_Update(r) =>
            attendance'[r.rec].approvedBy = attendance[r.rec].approvedBy]_vars

\* C29: in every reachable state the approvedBy of an attendance row is
\* non-null only if the row is approved or rejected, and is never the courier
\* of the row; check-in and check-out never set approvedBy.
C29_ApprovedByOnlyReview == []ApprovedByOnlyReviewed /\ AttendanceNeverApproves

\* A package has at most one history row into picked_up and at most one
\* scan-log row of type pickup (one per pickup that was answered 200).
OnePickupPerPackage ==
  \A p \in PkgIds :
    /\ Cardinality(RowsInto(p, "picked_up")) <= 1
    /\ Cardinality(LogRows(p, "pickup")) <= 1

\* The update of a pickup is applied to a package that is assigned at that
\* moment.
PickupFromAssigned ==
  [][\A r \in InFlight :
       (Ups_Update(r) /\ r.newStatus = "picked_up") =>
         packages[r.pkg].status = "assigned"]_vars

\* C30: of two pickups (scans or manual, in any mix) that run concurrently on
\* an assigned package at most one is answered 200, and the package gets
\* exactly one transition from assigned to picked_up, with one history row
\* and one scan-log row.
C30_ConcurrentPickup == []OnePickupPerPackage /\ PickupFromAssigned

====
